---------------------------- MODULE Spec2Model ----------------------------
(***************************************************************************)
(* dive_game: house vault reservation ledger, game sessions and the        *)
(* instructions that drive them (start_session, play_round, cash_out,      *)
(* lose_session, clean_expired_session, withdraw_house, toggle_house_lock, *)
(* update_config).                                                         *)
(*                                                                         *)
(* An instruction is one atomic step.  An instruction that returns Err     *)
(* leaves every account as it was (the runtime discards the writes of a    *)
(* failed instruction), so each action is guarded by the checks of its     *)
(* handler: <instruction>_check gives "Ok" or the error the handler        *)
(* returns in the current state.  Account constraints of the               *)
(* #[derive(Accounts)] structs (init, has_one, close) are guards too.      *)
(***************************************************************************)
EXTENDS Integers, Sequences, FiniteSets, TLC

(***************************************************************************)
(* Bounds of the model                                                     *)
(***************************************************************************)
\* total number of successful start_session calls in one behaviour
MaxOpens == 2
\* number of times the reservation of one session is released (the instructions
\* on a closed session all run in the transaction that closed it)
MaxReleases == 2
\* number of slot values after slot 0 the clock steps through
MaxSlotSteps == 2
\* largest max_dives an admin update sets in the deep-dive specification
DeepMaxDives == 51
\* largest dive number the treasure curve is evaluated at, one dive at a time
MaxCalcDive == 250
\* u64::MAX, scaled to the integer range of the model checker
U64_MAX == 1900000000

(***************************************************************************)
(* Program constants                                                       *)
(***************************************************************************)
TIMEOUT_SLOTS == 9000
BASE_PROB_BPS == 990000
DECAY_FACTOR == 5000
MIN_PROB_BPS == 100000
SCALE == 10
MULT == 11
MAX_PAYOUT_MULT == 100
ROLL_MODULUS == 1000000
\* the dive number at which max_dives_for_bet gives up
DIVE_SEARCH_LIMIT == 200
U16_MAX == 65535
\* lamports held by a session account / required of the vault account for
\* rent exemption (Rent::minimum_balance of the account's size)
SESSION_RENT == 2
VAULT_RENT == 3

\* the session addresses: the PDAs of the player for these session_index values
Sessions == {1, 2}

Min(a, b) == IF a < b THEN a ELSE b
Max(a, b) == IF a > b THEN a ELSE b

\* u64 arithmetic of the standard library
checked_add(a, b) == IF a + b > U64_MAX THEN -1 ELSE a + b
checked_sub(a, b) == IF a < b THEN -1 ELSE a - b
saturating_add(a, b) == IF a > U64_MAX - b THEN U64_MAX ELSE a + b
saturating_sub(a, b) == IF a < b THEN 0 ELSE a - b
saturating_mul(a, b) == IF b # 0 /\ a > U64_MAX \div b THEN U64_MAX ELSE a * b

(***************************************************************************)
(* game_math.rs                                                            *)
(***************************************************************************)
\* the curve without its floor
survival_probability_bps_no_floor(dive_number) ==
    saturating_sub(BASE_PROB_BPS,
                   saturating_mul(saturating_sub(dive_number, 1), DECAY_FACTOR))

\* the curve losing the decay twice per dive
survival_probability_bps_steep(dive_number) ==
    Max(saturating_sub(BASE_PROB_BPS,
                       saturating_mul(saturating_sub(dive_number, 1), 2 * DECAY_FACTOR)),
        MIN_PROB_BPS)

survival_probability_bps(dive_number) ==
    LET reduction == saturating_mul(saturating_sub(dive_number, 1), DECAY_FACTOR)
    IN  Max(saturating_sub(BASE_PROB_BPS, reduction), MIN_PROB_BPS)

\* the payout cap with a product that wraps instead of saturating
max_payout_for_bet_wrapping(bet_amount) ==
    (bet_amount % (U64_MAX \div MAX_PAYOUT_MULT + 1)) * MAX_PAYOUT_MULT

max_payout_for_bet(bet_amount) == saturating_mul(bet_amount, MAX_PAYOUT_MULT)

\* result.checked_mul(MULT).and_then(|v| v.checked_div(SCALE)) on u128: the
\* product of a u64 value and MULT always fits, so this is
\* (result * MULT) \div SCALE, written quotient first to keep the product
\* inside the integers of the model checker
grow(result) ==
    (result \div SCALE) * MULT + ((result % SCALE) * MULT) \div SCALE

\* one iteration that never returns early and keeps the result in 64 bits
treasure_iter_wrapping(result, max) ==
    [result |-> grow(result) % (U64_MAX + 1), returned |-> FALSE]

\* one iteration of the loop of treasure_for_dive: the new result, and
\* whether the function returns max from inside the loop
treasure_iter(result, max) ==
    LET r == grow(result)
    IN  IF r >= max THEN [result |-> r, returned |-> TRUE]
        ELSE [result |-> r, returned |-> FALSE]

\* the value returned without the clamp to max
treasure_return_unclamped(it, max) == it.result

\* what treasure_for_dive returns: max from inside the loop, or the result
\* clamped to max after it
treasure_return(it, max) == IF it.returned THEN max ELSE Min(it.result, max)

\* the loop of treasure_for_dive: n iterations left, early return at the cap
RECURSIVE treasure_loop(_, _, _)
treasure_loop(result, max, n) ==
    IF n = 0 THEN Min(result, max)
    ELSE LET it == treasure_iter(result, max)
         IN  IF it.returned THEN max ELSE treasure_loop(it.result, max, n - 1)

\* treasure_for_dive without the cap at max_payout_for_bet (grow never
\* shrinks a value: the comparison computes each iteration's value in turn)
RECURSIVE treasure_loop_uncapped(_, _)
treasure_loop_uncapped(result, n) ==
    IF n = 0 THEN result
    ELSE LET grown == grow(result)
         IN  IF grown < result THEN result
             ELSE treasure_loop_uncapped(grown, n - 1)

treasure_for_dive_uncapped(bet_amount, dive_number) ==
    IF dive_number = 0 THEN bet_amount
    ELSE treasure_loop_uncapped(bet_amount, dive_number)

treasure_for_dive(bet_amount, dive_number) ==
    IF dive_number = 0 THEN bet_amount
    ELSE treasure_loop(bet_amount, max_payout_for_bet(bet_amount), dive_number)

(***************************************************************************)
(* states.rs                                                               *)
(***************************************************************************)
None == -1

Ok == "Ok"

\* GameConfig::default_config, in field order
default_config == <<700000, 8000, 50000, 19, 10, 100, 5, 50000000, 100000000>>

\* GameConfig::validate: "Ok" or the error it returns
validate(c) ==
    IF ~(c.treasure_multiplier_den > 0) THEN "InvalidConfig"
    ELSE IF ~(c.treasure_multiplier_num > 0) THEN "InvalidConfig"
    ELSE IF ~(c.max_payout_multiplier > 0) THEN "InvalidConfig"
    ELSE IF ~(c.base_survival_ppm <= 1000000) THEN "InvalidConfig"
    ELSE IF ~(c.min_survival_ppm <= c.base_survival_ppm) THEN "InvalidConfig"
    ELSE IF ~(c.max_dives > 0) THEN "InvalidConfig"
    ELSE IF c.max_bet > 0 /\ ~(c.min_bet <= c.max_bet) THEN "InvalidConfig"
    ELSE Ok

\* HouseVault::reserve: the new total_reserved, or -1 for Err(Overflow)
reserve(total_reserved, amount) == checked_add(total_reserved, amount)

\* release that leaves the reservation in place
release_nothing(total_reserved, amount) == total_reserved

\* HouseVault::release: always Ok, the new total_reserved
release(total_reserved, amount) == saturating_sub(total_reserved, amount)

\* ensure_active without its status check
ensure_active_unchecked(session) == Ok

\* GameSession::ensure_active
ensure_active(session) ==
    IF session.status = "Active" THEN Ok ELSE "InvalidSessionStatus"

\* GameSession::mark_lost / mark_cashed_out: [err, session]
mark_lost(session) ==
    IF ensure_active(session) # Ok
    THEN [err |-> ensure_active(session), session |-> session]
    ELSE [err |-> Ok, session |-> [session EXCEPT !.status = "Lost"]]

mark_cashed_out(session) ==
    IF ensure_active(session) # Ok
    THEN [err |-> ensure_active(session), session |-> session]
    ELSE [err |-> Ok, session |-> [session EXCEPT !.status = "CashedOut"]]

(***************************************************************************)
(* State                                                                   *)
(***************************************************************************)
VARIABLES
    config,          \* the GameConfig account
    house_vault,     \* the HouseVault account: locked, total_reserved, lamports
    sessions,        \* the GameSession account at each session address
    user_lamports,   \* lamports of the player
    clock_slot,      \* Clock::get().slot
    audit,           \* per session address: what was reserved, released, paid
    opened,          \* number of sessions opened so far
    calc,            \* arguments and results of the game_math functions
    frame            \* the handler that is running statement by statement

vars == <<config, house_vault, sessions, user_lamports, clock_slot, audit, opened,
          calc, frame>>

\* no game_math call under way / no handler in the middle of its body (err:
\* what the last handler that ran statement by statement returned)
NoCalc ==
    [bet_amount |-> 0, dive_number |-> 0, prob |-> 0, result |-> 0,
     returned |-> FALSE, treasure |-> 0, max_payout |-> 0, max_dives |-> None]
NoFrame ==
    [instr |-> "none", pc |-> "none", s |-> 0, bet_amount |-> 0, err |-> Ok,
     saved |-> <<>>]

\* An address that holds no account.  `init` hands the handler zeroed data:
\* status is the first enum variant and last_active_slot is 0.
NoSession ==
    [acct |-> "none", status |-> "Active", bet_amount |-> 0,
     current_treasure |-> 0, max_payout |-> 0, dive_number |-> 0,
     last_active_slot |-> 0]

NoAudit == [reserved |-> 0, releases |-> 0, payouts |-> 0, paid |-> 0, ended_by |-> "none"]

\* the account can be loaded as Account<GameSession>: it is owned by the
\* program and holds session data ("drained": its lamports were set to 0 in
\* the running transaction and the runtime has not yet collected it)
Loaded(s) == sessions[s].acct \in {"open", "drained"}

session_lamports(s) == IF sessions[s].acct = "open" THEN SESSION_RENT ELSE 0

\* slot values the clock steps through: 0, 9000, 9001, 18001, 18002, ...
SlotAt(i) == (i \div 2) * (TIMEOUT_SLOTS + 1) + (i % 2) * TIMEOUT_SLOTS
SlotValues == {SlotAt(i) : i \in 0..MaxSlotSteps}

\* init_config: absent parameters take the defaults; validated inline
init_config(params) ==
    LET c == [base_survival_ppm |->
                 IF params.base_survival_ppm = None THEN default_config[1] ELSE params.base_survival_ppm,
              decay_per_dive_ppm |->
                 IF params.decay_per_dive_ppm = None THEN default_config[2] ELSE params.decay_per_dive_ppm,
              min_survival_ppm |->
                 IF params.min_survival_ppm = None THEN default_config[3] ELSE params.min_survival_ppm,
              treasure_multiplier_num |->
                 IF params.treasure_multiplier_num = None THEN default_config[4] ELSE params.treasure_multiplier_num,
              treasure_multiplier_den |->
                 IF params.treasure_multiplier_den = None THEN default_config[5] ELSE params.treasure_multiplier_den,
              max_payout_multiplier |->
                 IF params.max_payout_multiplier = None THEN default_config[6] ELSE params.max_payout_multiplier,
              max_dives |->
                 IF params.max_dives = None THEN default_config[7] ELSE params.max_dives,
              min_bet |->
                 IF params.min_bet = None THEN default_config[8] ELSE params.min_bet,
              max_bet |->
                 IF params.max_bet = None THEN default_config[9] ELSE params.max_bet]
        err == IF ~(c.treasure_multiplier_den > 0) THEN "InvalidConfig"
               ELSE IF ~(c.base_survival_ppm <= 1000000) THEN "InvalidConfig"
               ELSE IF ~(c.min_survival_ppm <= c.base_survival_ppm) THEN "InvalidConfig"
               ELSE IF ~(c.max_dives > 0) THEN "InvalidConfig"
               ELSE IF c.max_bet > 0 /\ ~(c.min_bet <= c.max_bet) THEN "InvalidConfig"
               ELSE Ok
    IN  [err |-> err, config |-> c]

NoInitParams ==
    [base_survival_ppm |-> None, decay_per_dive_ppm |-> None,
     min_survival_ppm |-> None, treasure_multiplier_num |-> None,
     treasure_multiplier_den |-> None, max_payout_multiplier |-> None,
     max_dives |-> None, min_bet |-> None, max_bet |-> None]

\* the parameters the admin passes to init_config
InitParams == [NoInitParams EXCEPT !.max_dives = 3]

\* inputs of the model
Bets == {0, 7, 1000000}
\* the first 8 bytes of the hash of the entropy, as a u64
RawRolls == {0, 974999, 1975000, 2989999, 3990000, 999999, 1000000000}
\* (raw_u64 % 1_000_000) as u32
roll_of(raw_u64) == raw_u64 % ROLL_MODULUS
Rolls == {roll_of(raw_u64) : raw_u64 \in RawRolls}
VaultFunding == {50000000, 250000000}
UserFunding == {3000000}
WithdrawAmounts == {150500000}

\* init_house_vault(locked) followed by funding of the vault
Init ==
    /\ config = init_config(InitParams).config
    /\ \E locked \in BOOLEAN, funding \in VaultFunding :
          house_vault = [locked |-> locked, total_reserved |-> 0,
                         lamports |-> VAULT_RENT + funding]
    /\ sessions = [s \in Sessions |-> NoSession]
    /\ user_lamports \in UserFunding
    /\ clock_slot = 0
    /\ audit = [s \in Sessions |-> NoAudit]
    /\ opened = 0
    /\ calc = NoCalc
    /\ frame = NoFrame

(***************************************************************************)
(* instructions/start_session.rs                                           *)
(***************************************************************************)
\* start_session comparing the free balance with the bet, not with max_payout
start_session_check_bet_covered(bet_amount) ==
    LET max_payout == max_payout_for_bet(bet_amount)
        vault_balance == house_vault.lamports + bet_amount
        available == checked_sub(vault_balance, house_vault.total_reserved)
    IN  IF house_vault.locked THEN "HouseLocked"
        ELSE IF ~(bet_amount > 0) THEN "InvalidBetAmount"
        ELSE IF user_lamports - SESSION_RENT < bet_amount THEN "TransferFailed"
        ELSE IF available = -1 THEN "Overflow"
        ELSE IF ~(available >= bet_amount) THEN "InsufficientVaultBalance"
        ELSE IF checked_add(house_vault.total_reserved, max_payout) = -1 THEN "Overflow"
        ELSE Ok

\* start_session without the check of the lock
start_session_check_no_lock(bet_amount) ==
    LET max_payout == max_payout_for_bet(bet_amount)
        vault_balance == house_vault.lamports + bet_amount
        available == checked_sub(vault_balance, house_vault.total_reserved)
    IN  IF ~(bet_amount > 0) THEN "InvalidBetAmount"
        ELSE IF user_lamports - SESSION_RENT < bet_amount THEN "TransferFailed"
        ELSE IF available = -1 THEN "Overflow"
        ELSE IF ~(available >= max_payout) THEN "InsufficientVaultBalance"
        ELSE IF checked_add(house_vault.total_reserved, max_payout) = -1 THEN "Overflow"
        ELSE Ok

\* the checks of start_session in source order: "Ok" or the first error.
\* The bet is transferred before the liquidity check, so the balance that
\* is compared already holds it.
start_session_check(bet_amount) ==
    LET max_payout == max_payout_for_bet(bet_amount)
        vault_balance == house_vault.lamports + bet_amount
        available == checked_sub(vault_balance, house_vault.total_reserved)
    IN  IF house_vault.locked THEN "HouseLocked"
        ELSE IF ~(bet_amount > 0) THEN "InvalidBetAmount"
        ELSE IF user_lamports - SESSION_RENT < bet_amount THEN "TransferFailed"
        ELSE IF available = -1 THEN "Overflow"
        ELSE IF ~(available >= max_payout) THEN "InsufficientVaultBalance"
        ELSE IF checked_add(house_vault.total_reserved, max_payout) = -1 THEN "Overflow"
        ELSE Ok

\* the session init with the dive counter left at 0
new_session_dive0(bet_amount) ==
    [NoSession EXCEPT
        !.acct = "open",
        !.status = "Active",
        !.bet_amount = bet_amount,
        !.current_treasure = bet_amount,
        !.max_payout = max_payout_for_bet(bet_amount),
        !.dive_number = 0]

\* the account `init` creates and the handler fills in
new_session(bet_amount) ==
    [NoSession EXCEPT
        !.acct = "open",
        !.status = "Active",
        !.bet_amount = bet_amount,
        !.current_treasure = bet_amount,
        !.max_payout = max_payout_for_bet(bet_amount),
        !.dive_number = 1]

\* `init` of the session account: the address holds no account and the user
\* pays its rent
start_session(s, bet_amount) ==
    /\ sessions[s].acct = "none"
    /\ user_lamports >= SESSION_RENT
    /\ opened < MaxOpens
    /\ start_session_check(bet_amount) = Ok
    /\ user_lamports' = user_lamports - SESSION_RENT - bet_amount
    /\ house_vault' =
          [house_vault EXCEPT
              !.lamports = @ + bet_amount,
              !.total_reserved = checked_add(@, max_payout_for_bet(bet_amount))]
    /\ sessions' = [sessions EXCEPT ![s] = new_session(bet_amount)]
    /\ audit' = [audit EXCEPT ![s] =
                    [NoAudit EXCEPT !.reserved = max_payout_for_bet(bet_amount)]]
    /\ opened' = opened + 1
    /\ UNCHANGED <<calc, frame, config, clock_slot>>

(***************************************************************************)
(* instructions/play_round.rs                                              *)
(***************************************************************************)
\* play_round allowing one more dive at dive_number = max_dives
play_round_check_one_more(s) ==
    IF house_vault.locked THEN "HouseLocked"
    ELSE IF ~(sessions[s].status = "Active") THEN "InvalidSessionStatus"
    ELSE IF ~(sessions[s].dive_number <= config.max_dives) THEN "MaxDivesReached"
    ELSE Ok

play_round_check(s) ==
    IF house_vault.locked THEN "HouseLocked"
    ELSE IF ~(sessions[s].status = "Active") THEN "InvalidSessionStatus"
    ELSE IF ~(sessions[s].dive_number < config.max_dives) THEN "MaxDivesReached"
    ELSE Ok

\* a roll equal to the survival probability counted as survival
should_survive_inclusive(roll, dive_number) ==
    roll <= survival_probability_bps(dive_number)

\* roll < survival probability of the current dive
should_survive(roll, dive_number) == roll < survival_probability_bps(dive_number)

\* survive without refreshing the activity slot
survive_stale_slot(session) ==
    [session EXCEPT
        !.dive_number = @ + 1,
        !.current_treasure = treasure_for_dive(session.bet_amount, session.dive_number + 1)]

\* survive skipping a dive
survive_two_dives(session) ==
    [session EXCEPT
        !.dive_number = @ + 2,
        !.current_treasure = treasure_for_dive(session.bet_amount, session.dive_number + 2),
        !.last_active_slot = clock_slot]

\* the session after a surviving round
survive(session) ==
    [session EXCEPT
        !.dive_number = @ + 1,
        !.current_treasure = treasure_for_dive(session.bet_amount, session.dive_number + 1),
        !.last_active_slot = clock_slot]

\* the session after a lost round: its lamports go to the user, its data stays
\* as it is until the runtime collects the account
lose(session) == [session EXCEPT !.acct = "drained"]

\* records that op released the reservation of s
Released(s, op) ==
    [audit EXCEPT ![s].releases = @ + 1, ![s].ended_by = op]

\* bound of the model: one more release of the reservation of s is explored
MayRelease(s) == audit[s].releases < MaxReleases

play_round(s, roll) ==
    /\ Loaded(s)
    /\ play_round_check(s) = Ok
    /\ IF should_survive(roll, sessions[s].dive_number)
       THEN /\ sessions' = [sessions EXCEPT ![s] = survive(sessions[s])]
            /\ UNCHANGED <<calc, frame, config, house_vault, user_lamports, clock_slot, audit, opened>>
       ELSE /\ MayRelease(s)
            /\ checked_add(user_lamports, session_lamports(s)) # -1
            /\ house_vault' =
                  [house_vault EXCEPT
                      !.total_reserved = release(@, sessions[s].max_payout)]
            /\ user_lamports' = user_lamports + session_lamports(s)
            /\ sessions' = [sessions EXCEPT ![s] = lose(sessions[s])]
            /\ audit' = Released(s, "play_round")
            /\ UNCHANGED <<calc, frame, config, clock_slot, opened>>

(***************************************************************************)
(* instructions/cash_out.rs                                                *)
(***************************************************************************)
\* cash_out accepting a treasure equal to the bet
cash_out_check_breakeven(s) ==
    IF ensure_active(sessions[s]) # Ok THEN ensure_active(sessions[s])
    ELSE IF house_vault.locked THEN "HouseLocked"
    ELSE IF ~(sessions[s].current_treasure >= sessions[s].bet_amount)
         THEN "InsufficientTreasure"
    ELSE IF ~(house_vault.lamports >= sessions[s].current_treasure)
         THEN "InsufficientVaultBalance"
    ELSE IF checked_sub(house_vault.lamports, sessions[s].current_treasure) = -1
         THEN "Overflow"
    ELSE IF checked_add(user_lamports, sessions[s].current_treasure) = -1
         THEN "Overflow"
    ELSE mark_cashed_out(sessions[s]).err

cash_out_check(s) ==
    IF ensure_active(sessions[s]) # Ok THEN ensure_active(sessions[s])
    ELSE IF house_vault.locked THEN "HouseLocked"
    ELSE IF ~(sessions[s].current_treasure > sessions[s].bet_amount)
         THEN "InsufficientTreasure"
    ELSE IF ~(house_vault.lamports >= sessions[s].current_treasure)
         THEN "InsufficientVaultBalance"
    ELSE IF checked_sub(house_vault.lamports, sessions[s].current_treasure) = -1
         THEN "Overflow"
    ELSE IF checked_add(user_lamports, sessions[s].current_treasure) = -1
         THEN "Overflow"
    ELSE mark_cashed_out(sessions[s]).err

\* cash_out paying the bet back on top of the treasure
cash_out_amount_with_bet(session) == session.current_treasure + session.bet_amount

\* what cash_out moves from the vault to the user
cash_out_amount(session) == session.current_treasure

cash_out(s) ==
    /\ Loaded(s)
    /\ cash_out_check(s) = Ok
    /\ MayRelease(s)
    /\ house_vault' =
          [house_vault EXCEPT
              !.lamports = @ - cash_out_amount(sessions[s]),
              !.total_reserved = release(@, sessions[s].max_payout)]
    /\ user_lamports' =
          user_lamports + cash_out_amount(sessions[s]) + session_lamports(s)
    /\ sessions' =
          [sessions EXCEPT ![s] =
              [mark_cashed_out(sessions[s]).session EXCEPT
                  !.last_active_slot = clock_slot,
                  !.acct = "drained"]]
    /\ audit' = [Released(s, "cash_out") EXCEPT
                    ![s].payouts = @ + 1,
                    ![s].paid = cash_out_amount(sessions[s])]
    /\ UNCHANGED <<calc, frame, config, clock_slot, opened>>

(***************************************************************************)
(* instructions/lose_session.rs                                            *)
(***************************************************************************)
\* lose_session with the check of the lock that play_round and cash_out make
lose_session_check_locked(s) ==
    IF house_vault.locked THEN "HouseLocked"
    ELSE IF ~(sessions[s].status = "Active") THEN "InvalidSessionStatus"
    ELSE IF checked_sub(house_vault.total_reserved, sessions[s].max_payout) = -1
         THEN "Overflow"
    ELSE Ok

\* lose_session releasing without the check of the subtraction
lose_session_check_no_underflow(s) ==
    IF ~(sessions[s].status = "Active") THEN "InvalidSessionStatus"
    ELSE Ok

lose_session_check(s) ==
    IF ~(sessions[s].status = "Active") THEN "InvalidSessionStatus"
    ELSE IF checked_sub(house_vault.total_reserved, sessions[s].max_payout) = -1
         THEN "Overflow"
    ELSE Ok

lose_session(s) ==
    /\ Loaded(s)
    /\ lose_session_check(s) = Ok
    /\ MayRelease(s)
    /\ house_vault' =
          [house_vault EXCEPT
              !.total_reserved = checked_sub(@, sessions[s].max_payout)]
    /\ sessions' = [sessions EXCEPT ![s].status = "Lost"]
    /\ audit' = Released(s, "lose_session")
    /\ UNCHANGED <<calc, frame, config, user_lamports, clock_slot, opened>>

(***************************************************************************)
(* instructions/clean_expired_session.rs                                   *)
(***************************************************************************)
\* clean_expired_session with the check of the lock that play_round makes
clean_expired_session_check_locked(s) ==
    LET slots_inactive == checked_sub(clock_slot, sessions[s].last_active_slot)
    IN  IF house_vault.locked THEN "HouseLocked"
        ELSE IF slots_inactive = -1 THEN "Overflow"
        ELSE IF ~(slots_inactive > TIMEOUT_SLOTS) THEN "SessionNotExpired"
        ELSE IF ~(sessions[s].status = "Active") THEN "InvalidSessionStatus"
        ELSE Ok

\* clean_expired_session accepting an elapsed time of exactly TIMEOUT_SLOTS
clean_expired_session_check_at_timeout(s) ==
    LET slots_inactive == checked_sub(clock_slot, sessions[s].last_active_slot)
    IN  IF slots_inactive = -1 THEN "Overflow"
        ELSE IF ~(slots_inactive >= TIMEOUT_SLOTS) THEN "SessionNotExpired"
        ELSE IF ~(sessions[s].status = "Active") THEN "InvalidSessionStatus"
        ELSE Ok

clean_expired_session_check(s) ==
    LET slots_inactive == checked_sub(clock_slot, sessions[s].last_active_slot)
    IN  IF slots_inactive = -1 THEN "Overflow"
        ELSE IF ~(slots_inactive > TIMEOUT_SLOTS) THEN "SessionNotExpired"
        ELSE IF ~(sessions[s].status = "Active") THEN "InvalidSessionStatus"
        ELSE Ok

\* who signs clean_expired_session as the crank: the player or anyone else
Cranks == {"user", "other"}

\* `close = crank`: on success the account is closed at once, its lamports
\* go to the crank (any signer)
clean_expired_session(s, crank) ==
    /\ Loaded(s)
    /\ clean_expired_session_check(s) = Ok
    /\ MayRelease(s)
    /\ crank = "user" => checked_add(user_lamports, session_lamports(s)) # -1
    /\ user_lamports' =
          IF crank = "user" THEN user_lamports + session_lamports(s) ELSE user_lamports
    /\ house_vault' =
          [house_vault EXCEPT
              !.total_reserved = release(@, sessions[s].max_payout)]
    /\ sessions' = [sessions EXCEPT ![s] = NoSession]
    /\ audit' = Released(s, "clean_expired_session")
    /\ UNCHANGED <<calc, frame, config, clock_slot, opened>>

(***************************************************************************)
(* instructions/withdraw_house.rs, toggle_house_lock.rs, update_config.rs  *)
(***************************************************************************)
\* the allowance computed without the reservations
withdraw_available_ignoring_reserved ==
    saturating_sub(house_vault.lamports, VAULT_RENT)

\* what the house authority may withdraw
withdraw_available ==
    LET required == saturating_add(house_vault.total_reserved, VAULT_RENT)
    IN  saturating_sub(house_vault.lamports, required)

withdraw_house_check(amount) ==
    IF ~(amount <= withdraw_available) THEN "InsufficientVaultBalance" ELSE Ok

\* the vault after the lamports moved to the house authority
withdraw_house_result(amount) ==
    [house_vault EXCEPT !.lamports = @ - amount]

withdraw_house(amount) ==
    /\ withdraw_house_check(amount) = Ok
    /\ house_vault' = withdraw_house_result(amount)
    /\ UNCHANGED <<calc, frame, config, sessions, user_lamports, clock_slot, audit, opened>>

toggle_house_lock ==
    /\ house_vault' = [house_vault EXCEPT !.locked = ~@]
    /\ UNCHANGED <<calc, frame, config, sessions, user_lamports, clock_slot, audit, opened>>

\* UpdateConfigParams with every field absent
NoUpdateParams ==
    [base_survival_ppm |-> None, decay_per_dive_ppm |-> None,
     min_survival_ppm |-> None, treasure_multiplier_num |-> None,
     treasure_multiplier_den |-> None, max_payout_multiplier |-> None,
     max_dives |-> None, fixed_bet |-> None]

\* update_config writing the two halves of the multiplier into each other's field
apply_update_swapped(c, params) ==
    [c EXCEPT
        !.base_survival_ppm =
            IF params.base_survival_ppm = None THEN @ ELSE params.base_survival_ppm,
        !.decay_per_dive_ppm =
            IF params.decay_per_dive_ppm = None THEN @ ELSE params.decay_per_dive_ppm,
        !.min_survival_ppm =
            IF params.min_survival_ppm = None THEN @ ELSE params.min_survival_ppm,
        !.treasure_multiplier_den =
            IF params.treasure_multiplier_num = None THEN @ ELSE params.treasure_multiplier_num,
        !.treasure_multiplier_num =
            IF params.treasure_multiplier_den = None THEN @ ELSE params.treasure_multiplier_den,
        !.max_payout_multiplier =
            IF params.max_payout_multiplier = None THEN @ ELSE params.max_payout_multiplier,
        !.max_dives =
            IF params.max_dives = None THEN @ ELSE params.max_dives]

\* the config with the present fields of params written into it
\* (fixed_bet is written to a field GameConfig does not declare; the model
\* leaves the declared fields as they are for it)
apply_update(c, params) ==
    [c EXCEPT
        !.base_survival_ppm =
            IF params.base_survival_ppm = None THEN @ ELSE params.base_survival_ppm,
        !.decay_per_dive_ppm =
            IF params.decay_per_dive_ppm = None THEN @ ELSE params.decay_per_dive_ppm,
        !.min_survival_ppm =
            IF params.min_survival_ppm = None THEN @ ELSE params.min_survival_ppm,
        !.treasure_multiplier_num =
            IF params.treasure_multiplier_num = None THEN @ ELSE params.treasure_multiplier_num,
        !.treasure_multiplier_den =
            IF params.treasure_multiplier_den = None THEN @ ELSE params.treasure_multiplier_den,
        !.max_payout_multiplier =
            IF params.max_payout_multiplier = None THEN @ ELSE params.max_payout_multiplier,
        !.max_dives =
            IF params.max_dives = None THEN @ ELSE params.max_dives]

update_config_check(params) == validate(apply_update(config, params))

update_config(params) ==
    /\ update_config_check(params) = Ok
    /\ config' = apply_update(config, params)
    /\ UNCHANGED <<calc, frame, house_vault, sessions, user_lamports, clock_slot, audit, opened>>

(***************************************************************************)
(* The runtime: end of a transaction, passing of slots                     *)
(***************************************************************************)
\* accounts left with 0 lamports are collected when the transaction ends
collect(ss) == [s \in Sessions |-> IF ss[s].acct = "drained" THEN NoSession ELSE ss[s]]

EndTransaction ==
    /\ \E s \in Sessions : sessions[s].acct = "drained"
    /\ sessions' = collect(sessions)
    /\ UNCHANGED <<calc, frame, config, house_vault, user_lamports, clock_slot, audit, opened>>

\* the clock moves to the next slot value; transactions do not span slots
AdvanceSlot ==
    /\ \E t \in SlotValues : t > clock_slot
    /\ clock_slot' = CHOOSE t \in SlotValues :
                        t > clock_slot /\ \A u \in SlotValues : u > clock_slot => t <= u
    /\ sessions' = collect(sessions)
    /\ UNCHANGED <<calc, frame, config, house_vault, user_lamports, audit, opened>>

(***************************************************************************)
(* Specifications                                                          *)
(***************************************************************************)
\* Sessions at two addresses of one vault, with max_dives as init_config set it.
Next ==
    \/ \E s \in Sessions, bet \in Bets : start_session(s, bet)
    \/ \E s \in Sessions, roll \in Rolls : play_round(s, roll)
    \/ \E s \in Sessions : cash_out(s)
    \/ \E s \in Sessions : lose_session(s)
    \/ \E s \in Sessions, crank \in Cranks : clean_expired_session(s, crank)
    \/ \E amount \in WithdrawAmounts : withdraw_house(amount)
    \/ toggle_house_lock
    \/ EndTransaction
    \/ AdvanceSlot

Spec == Init /\ [][Next]_vars

\* One session played, within one transaction window, to the depth at which
\* the treasure reaches the cap: the admin raises max_dives, the player keeps
\* diving.
UpdateInputs == {[NoUpdateParams EXCEPT !.max_dives = d] : d \in {0, 3, DeepMaxDives}}

NextDeep ==
    \/ \E bet \in Bets : start_session(1, bet)
    \/ \E roll \in Rolls : play_round(1, roll)
    \/ cash_out(1)
    \/ \E params \in UpdateInputs : update_config(params)

SpecDeep == Init /\ [][NextDeep]_vars

(***************************************************************************)
(* Properties                                                              *)
(***************************************************************************)
IsActive(s) == sessions[s].acct = "open" /\ sessions[s].status = "Active"

ActiveMaxPayout(s) == IF IsActive(s) THEN sessions[s].max_payout ELSE 0

\* the sum of max_payout over the Active sessions among S
RECURSIVE SumOfActive(_)
SumOfActive(S) ==
    IF S = {} THEN 0
    ELSE LET x == CHOOSE y \in S : TRUE
         IN  ActiveMaxPayout(x) + SumOfActive(S \ {x})

\* C1: in every reachable state total_reserved equals the sum of max_payout
\* over the sessions of the vault that are Active.
C1_ReservedIsSumOfActive ==
    house_vault.total_reserved = SumOfActive(Sessions)

\* C2: the reservation of a session is released at most once: after the
\* operation that ended the session no operation releases it again.
C2_ReleasedOnce == \A s \in Sessions : audit[s].releases <= 1

\* s is cashed out by the step
CashedOutNow(s) ==
    /\ Loaded(s)
    /\ sessions[s].status = "Active"
    /\ sessions'[s].status = "CashedOut"

\* C3: every successful cash_out moves current_treasure from the vault to the
\* player, and that amount is at most the max_payout reserved for the session
\* when it was started.
C3_PayoutWithinReservation ==
    [][\A s \in Sessions :
          CashedOutNow(s) =>
              /\ house_vault.lamports - house_vault'.lamports = sessions[s].current_treasure
              /\ user_lamports' - user_lamports =
                    sessions[s].current_treasure + session_lamports(s)
              /\ house_vault.lamports - house_vault'.lamports <= audit[s].reserved]_vars

\* C3 witness: a session was cashed out at the cap, the payout being all that
\* was reserved for it.
C3_Witness ==
    \E s \in Sessions :
        /\ audit[s].ended_by = "cash_out"
        /\ audit[s].paid = audit[s].reserved
        /\ sessions[s].dive_number > 1

Terminal(s) == Loaded(s) /\ sessions[s].status \in {"Lost", "CashedOut"}

\* every operation on s is rejected in the current state
AllRejected(s) ==
    /\ play_round_check(s) # Ok
    /\ cash_out_check(s) # Ok
    /\ lose_session_check(s) # Ok
    /\ clean_expired_session_check(s) # Ok
    /\ mark_lost(sessions[s]).err # Ok
    /\ mark_cashed_out(sessions[s]).err # Ok

\* C4: once a session is Lost or CashedOut every operation on it is rejected,
\* and its record never changes again (until the runtime collects the closed
\* account) and nothing more is released or paid for it.
C4_TerminalAbsorbing ==
    /\ [](\A s \in Sessions : Terminal(s) => AllRejected(s))
    /\ [][\A s \in Sessions :
             Terminal(s) =>
                 /\ sessions'[s] = sessions[s] \/ sessions'[s] = NoSession
                 /\ audit'[s] = audit[s]]_vars

\* C4 witness: a Lost session on which only the status check stands between
\* a call and its success (vault unlocked, dives left, timeout passed).
C4_Witness ==
    \E s \in Sessions :
        /\ Terminal(s)
        /\ sessions[s].status = "Lost"
        /\ ~house_vault.locked
        /\ sessions[s].dive_number < config.max_dives
        /\ clock_slot - sessions[s].last_active_slot > TIMEOUT_SLOTS
        /\ house_vault.total_reserved >= sessions[s].max_payout

\* the step releases the reservation of s through HouseVault::release
ReleaseCalled(s) ==
    /\ audit'[s].releases = audit[s].releases + 1
    /\ audit'[s].ended_by # "lose_session"

\* C5: release(amount) with total_reserved < amount fails: no call of it
\* succeeds from a state whose total_reserved is below the amount.
C5_ReleaseRejectsUnderflow ==
    [][\A s \in Sessions :
          ReleaseCalled(s) => house_vault.total_reserved >= sessions[s].max_payout]_vars

\* C6: every Active session has bet_amount <= current_treasure <= max_payout.
C6_TreasureBounds ==
    \A s \in Sessions :
        (Loaded(s) /\ sessions[s].status = "Active") =>
            /\ sessions[s].bet_amount <= sessions[s].current_treasure
            /\ sessions[s].current_treasure <= sessions[s].max_payout

\* C6 witness: an Active session whose treasure has grown to the cap.
C6_Witness ==
    \E s \in Sessions :
        /\ IsActive(s)
        /\ sessions[s].dive_number > 1
        /\ sessions[s].bet_amount < sessions[s].current_treasure
        /\ sessions[s].current_treasure = sessions[s].max_payout

Unprofitable(s) ==
    /\ Loaded(s)
    /\ sessions[s].status = "Active"
    /\ sessions[s].current_treasure <= sessions[s].bet_amount

\* a cash_out of s pays nothing, releases nothing and leaves s as it is
NoCashOut(s) ==
    /\ sessions'[s].status # "CashedOut"
    /\ audit'[s].payouts = audit[s].payouts
    /\ audit'[s].ended_by = "cash_out" => audit[s].ended_by = "cash_out"

\* C7 as stated: cash_out on an Active session with current_treasure <=
\* bet_amount fails with InsufficientTreasure.
C7_Original ==
    \A s \in Sessions : Unprofitable(s) => cash_out_check(s) = "InsufficientTreasure"

\* C7 amended: cash_out on an Active session with current_treasure <=
\* bet_amount fails, with HouseLocked on a locked vault and with
\* InsufficientTreasure on an unlocked one, and pays and releases nothing.
C7_UnprofitableCashOutFails ==
    /\ [](\A s \in Sessions :
             Unprofitable(s) =>
                 cash_out_check(s) =
                     IF house_vault.locked THEN "HouseLocked" ELSE "InsufficientTreasure")
    /\ [][\A s \in Sessions : Unprofitable(s) => NoCashOut(s)]_vars

\* C7 witness: an unlocked vault and an Active session that survived a round
\* and still holds no more than its bet.
C7_Witness ==
    \E s \in Sessions :
        /\ Unprofitable(s)
        /\ sessions[s].acct = "open"
        /\ sessions[s].dive_number > 1
        /\ ~house_vault.locked
        /\ house_vault.lamports >= sessions[s].current_treasure

\* the checks of start_session that precede the liquidity check pass for bet
CanOfferBet(bet) ==
    /\ ~house_vault.locked
    /\ bet > 0
    /\ user_lamports >= SESSION_RENT
    /\ user_lamports - SESSION_RENT >= bet

\* a session with this bet is opened by the step
OpenedNow(bet) ==
    \E s \in Sessions :
        /\ sessions[s].acct = "none"
        /\ sessions'[s].acct = "open"
        /\ sessions'[s].bet_amount = bet

Illiquid(bet) ==
    /\ house_vault.lamports + bet >= house_vault.total_reserved
    /\ house_vault.lamports + bet - house_vault.total_reserved < max_payout_for_bet(bet)

C9_LockedBlocksStart ==
    /\ [](house_vault.locked =>
             \A bet \in Bets : start_session_check(bet) = "HouseLocked")
    /\ [][house_vault.locked =>
             /\ \A s \in Sessions : sessions[s].acct = "none" => sessions'[s].acct = "none"
             /\ house_vault'.total_reserved <= house_vault.total_reserved
             /\ house_vault'.lamports <= house_vault.lamports
             /\ user_lamports' >= user_lamports
             /\ opened' = opened]_vars

\* C9 witness: the vault is locked while a session is open, and a bet is on
\* offer that an unlocked vault would accept.
C9_Witness ==
    /\ house_vault.locked
    /\ opened < MaxOpens
    /\ \E s \in Sessions : IsActive(s)
    /\ \E s \in Sessions : sessions[s].acct = "none"
    /\ \E bet \in Bets :
          /\ bet > 0
          /\ user_lamports - SESSION_RENT >= bet
          /\ ~Illiquid(bet)

LockedActive(s) == house_vault.locked /\ Loaded(s) /\ sessions[s].status = "Active"

\* C10 as stated: on a locked vault none of play_round, cash_out,
\* lose_session, clean_expired_session is rejected because of the lock.
C10_Original ==
    \A s \in Sessions :
        LockedActive(s) =>
            /\ play_round_check(s) # "HouseLocked"
            /\ cash_out_check(s) # "HouseLocked"
            /\ lose_session_check(s) # "HouseLocked"
            /\ clean_expired_session_check(s) # "HouseLocked"

\* C10 amended: on a locked vault lose_session and clean_expired_session on
\* an Active session succeed as they do on an unlocked one (lose_session
\* whenever the reservation is there, clean_expired_session whenever the
\* timeout has passed); play_round and cash_out are rejected with HouseLocked.
C10_LockBlocksPlayAndCashOutOnly ==
    \A s \in Sessions :
        LockedActive(s) =>
            /\ house_vault.total_reserved >= sessions[s].max_payout
                  => lose_session_check(s) = Ok
            /\ clock_slot - sessions[s].last_active_slot > TIMEOUT_SLOTS
                  => clean_expired_session_check(s) = Ok
            /\ play_round_check(s) = "HouseLocked"
            /\ cash_out_check(s) = "HouseLocked"

\* C10 witness: a locked vault, a profitable Active session with dives left
\* whose timeout has passed and whose reservation is in place.
C10_Witness ==
    \E s \in Sessions :
        /\ LockedActive(s)
        /\ sessions[s].acct = "open"
        /\ sessions[s].current_treasure > sessions[s].bet_amount
        /\ sessions[s].dive_number < config.max_dives
        /\ clock_slot - sessions[s].last_active_slot > TIMEOUT_SLOTS
        /\ house_vault.total_reserved >= sessions[s].max_payout
        /\ house_vault.lamports >= sessions[s].current_treasure

\* the bet lies inside the bounds of the config
BetInBounds(bet) ==
    /\ bet >= config.min_bet
    /\ config.max_bet # 0 => bet <= config.max_bet

\* C11: start_session rejects every bet outside [min_bet, max_bet]
\* (max_bet = 0 meaning no upper bound): only bets inside the bounds open a
\* session.
C11_BetWithinConfigBounds ==
    [][\A bet \in Bets : OpenedNow(bet) => BetInBounds(bet)]_vars

\* C13: a successful start_session(bet) creates an Active session with
\* dive_number = 1, bet_amount = current_treasure = bet and max_payout =
\* max_payout_for_bet(bet), moves exactly bet from the player to the vault
\* (the player also funds the rent of the session account) and raises
\* total_reserved by exactly that max_payout.
C13_StartSessionEffect ==
    [][\A s \in Sessions, bet \in Bets :
          (/\ sessions[s].acct = "none"
           /\ sessions'[s].acct = "open"
           /\ sessions'[s].bet_amount = bet) =>
              /\ bet > 0
              /\ sessions'[s].status = "Active"
              /\ sessions'[s].dive_number = 1
              /\ sessions'[s].current_treasure = bet
              /\ sessions'[s].max_payout = max_payout_for_bet(bet)
              /\ house_vault'.lamports = house_vault.lamports + bet
              /\ user_lamports' = user_lamports - bet - SESSION_RENT
              /\ house_vault'.total_reserved =
                    house_vault.total_reserved + max_payout_for_bet(bet)
              /\ house_vault'.locked = house_vault.locked
              /\ \A o \in Sessions \ {s} : sessions'[o] = sessions[o]]_vars

\* C13 witness: a session just opened with bet 1,000,000 next to an earlier
\* one, both reservations counted.
C13_Witness ==
    \E s \in Sessions :
        /\ IsActive(s)
        /\ sessions[s].dive_number = 1
        /\ sessions[s].bet_amount = 1000000
        /\ sessions[s].current_treasure = 1000000
        /\ sessions[s].max_payout = 100000000
        /\ house_vault.total_reserved > sessions[s].max_payout

\* s is cashed out by the step after one or more survived rounds, its
\* reservation untouched since start_session
RoundTripCashOut(s) ==
    /\ CashedOutNow(s)
    /\ sessions[s].acct = "open"
    /\ sessions[s].dive_number > 1
    /\ audit[s].releases = 0

\* total_reserved as it was before the start_session that opened s, no other
\* session having been opened or ended since
PreOpenReserved(s) == house_vault.total_reserved - audit[s].reserved

\* C14 as stated: for a session that is opened, survives one or more rounds
\* and is cashed out, total_reserved returns to its value before
\* start_session, the player's balance rises by exactly current_treasure and
\* the vault's balance falls by the same amount.
C14_Original ==
    [][\A s \in Sessions :
          RoundTripCashOut(s) =>
              /\ house_vault'.total_reserved = PreOpenReserved(s)
              /\ user_lamports' = user_lamports + sessions[s].current_treasure
              /\ house_vault'.lamports =
                    house_vault.lamports - sessions[s].current_treasure]_vars

\* C14 amended: as stated, except that the player's balance rises by
\* current_treasure plus the lamports of the closed session account (its
\* rent, which cash_out refunds to the player).
C14_RoundTrip ==
    [][\A s \in Sessions :
          RoundTripCashOut(s) =>
              /\ PreOpenReserved(s) = 0
              /\ house_vault'.total_reserved = PreOpenReserved(s)
              /\ user_lamports' =
                    user_lamports + sessions[s].current_treasure + SESSION_RENT
              /\ house_vault'.lamports =
                    house_vault.lamports - sessions[s].current_treasure]_vars

\* C14 witness: a session opened with bet 1,000,000 was cashed out after
\* surviving rounds; nothing is reserved any more and the vault lost the
\* treasure less the bet.
C14_Witness ==
    /\ audit[1].ended_by = "cash_out"
    /\ audit[1].releases = 1
    /\ audit[1].reserved = 100000000
    /\ audit[1].paid > 1000000
    /\ house_vault.total_reserved = 0
    /\ \E funding \in VaultFunding :
          house_vault.lamports = VAULT_RENT + funding + 1000000 - audit[1].paid
    /\ \E funding \in UserFunding :
          user_lamports = funding - 1000000 + audit[1].paid

\* slots since the last activity of s
Elapsed(s) == clock_slot - sessions[s].last_active_slot

\* the reservation of s is released by a clean_expired_session step
CleanedNow(s) ==
    /\ audit'[s].releases = audit[s].releases + 1
    /\ audit'[s].ended_by = "clean_expired_session"

\* C15 as stated: clean_expired_session fails with SessionNotExpired when
\* the elapsed time is TIMEOUT_SLOTS or less, and with InvalidSessionStatus
\* on a session that is not Active.
C15_Original ==
    \A s \in Sessions :
        Loaded(s) =>
            /\ Elapsed(s) <= TIMEOUT_SLOTS
                  => clean_expired_session_check(s) = "SessionNotExpired"
            /\ sessions[s].status # "Active"
                  => clean_expired_session_check(s) = "InvalidSessionStatus"

\* C15 amended: clean_expired_session succeeds only on an Active session
\* with more than TIMEOUT_SLOTS slots elapsed; with TIMEOUT_SLOTS or less it
\* fails with SessionNotExpired whatever the status (the timeout is checked
\* first), with more on a session that is not Active it fails with
\* InvalidSessionStatus; a failing call releases nothing.
C15_CleanOnlyExpiredActive ==
    /\ [](\A s \in Sessions :
             Loaded(s) =>
                 /\ Elapsed(s) <= TIMEOUT_SLOTS
                       => clean_expired_session_check(s) = "SessionNotExpired"
                 /\ (Elapsed(s) > TIMEOUT_SLOTS /\ sessions[s].status # "Active")
                       => clean_expired_session_check(s) = "InvalidSessionStatus")
    /\ [][\A s \in Sessions :
             CleanedNow(s) =>
                 /\ Loaded(s)
                 /\ sessions[s].status = "Active"
                 /\ Elapsed(s) > TIMEOUT_SLOTS]_vars

\* C15 witness: an Active session with exactly TIMEOUT_SLOTS slots elapsed
\* next to a Lost session whose account is still open.
C15_Witness ==
    /\ \E s \in Sessions :
          /\ IsActive(s)
          /\ Elapsed(s) = TIMEOUT_SLOTS
    /\ \E s \in Sessions :
          /\ sessions[s].acct = "open"
          /\ sessions[s].status = "Lost"

\* C16: a successful clean_expired_session lowers total_reserved by exactly
\* the max_payout of the session, leaves the session no longer Active and
\* takes nothing from the vault's balance (the lamports of the closed account
\* go to the crank, whoever that is).
C16_CleanEffect ==
    [][\A s \in Sessions :
          CleanedNow(s) =>
              /\ house_vault'.total_reserved =
                    house_vault.total_reserved - sessions[s].max_payout
              /\ ~(Loaded(s)' /\ sessions'[s].status = "Active")
              /\ house_vault'.lamports = house_vault.lamports]_vars

\* Sessions that are played or abandoned while the lock is toggled and the
\* slots pass, with cleanup calls scheduled fairly: a crank that can clean a
\* session keeps trying until the call goes through.
NextExpiry ==
    \/ \E s \in Sessions, bet \in Bets : start_session(s, bet)
    \/ \E s \in Sessions, roll \in Rolls : play_round(s, roll)
    \/ \E s \in Sessions, crank \in Cranks : clean_expired_session(s, crank)
    \/ toggle_house_lock
    \/ EndTransaction
    \/ AdvanceSlot

SpecFair ==
    /\ Init
    /\ [][NextExpiry]_vars
    /\ \A s \in Sessions :
          WF_vars(\E crank \in Cranks : clean_expired_session(s, crank))

Expired(s) == IsActive(s) /\ Elapsed(s) > TIMEOUT_SLOTS

OutOfDives(s) ==
    /\ Loaded(s)
    /\ sessions[s].status = "Active"
    /\ ~(sessions[s].dive_number < config.max_dives)

\* a round of s is played by the step: it survives or it loses
RoundPlayed(s) ==
    \/ sessions'[s].dive_number = sessions[s].dive_number + 1
    \/ /\ audit'[s].releases = audit[s].releases + 1
       /\ audit'[s].ended_by = "play_round"

\* C18 as stated: play_round on an Active session whose dive_number is not
\* less than config.max_dives fails with MaxDivesReached.
C18_Original ==
    \A s \in Sessions : OutOfDives(s) => play_round_check(s) = "MaxDivesReached"

\* C18 amended: play_round on an Active session whose dive_number is not
\* less than config.max_dives fails, with HouseLocked on a locked vault and
\* with MaxDivesReached on an unlocked one; no round is played, the session
\* and total_reserved stay as they are.
C18_NoRoundBeyondMaxDives ==
    /\ [](\A s \in Sessions :
             OutOfDives(s) =>
                 play_round_check(s) =
                     IF house_vault.locked THEN "HouseLocked" ELSE "MaxDivesReached")
    /\ [][\A s \in Sessions : OutOfDives(s) => ~RoundPlayed(s)]_vars

\* C18 witness: on an unlocked vault an Active session that survived rounds
\* up to dive_number = max_dives.
C18_Witness ==
    \E s \in Sessions :
        /\ IsActive(s)
        /\ ~house_vault.locked
        /\ sessions[s].dive_number > 1
        /\ sessions[s].dive_number = config.max_dives

\* C19: in every reachable state every session has dive_number <=
\* config.max_dives.
C19_DiveWithinMaxDives ==
    \A s \in Sessions : Loaded(s) => sessions[s].dive_number <= config.max_dives


\* The house side on its own: a vault funded so that one bet of 1000000 uses
\* all of its free balance, or funded amply; the authority withdraws nothing
\* or 150500000.
HouseFunding == {98999998, 250000000}
HouseWithdrawals == {0, 150500000}

InitHouse ==
    /\ config = init_config(InitParams).config
    /\ \E locked \in BOOLEAN, funding \in HouseFunding :
          house_vault = [locked |-> locked, total_reserved |-> 0,
                         lamports |-> VAULT_RENT + funding]
    /\ sessions = [s \in Sessions |-> NoSession]
    /\ user_lamports \in UserFunding
    /\ clock_slot = 0
    /\ audit = [s \in Sessions |-> NoAudit]
    /\ opened = 0
    /\ calc = NoCalc
    /\ frame = NoFrame

NextHouse ==
    \/ \E s \in Sessions, bet \in Bets : start_session(s, bet)
    \/ \E s \in Sessions, roll \in Rolls : play_round(s, roll)
    \/ \E s \in Sessions : cash_out(s)
    \/ \E amount \in HouseWithdrawals : withdraw_house(amount)
    \/ toggle_house_lock

SpecHouse == InitHouse /\ [][NextHouse]_vars

\* balance saturating-minus (total_reserved + rent-exempt minimum)
WithdrawAllowance ==
    IF house_vault.lamports >= house_vault.total_reserved + VAULT_RENT
    THEN house_vault.lamports - (house_vault.total_reserved + VAULT_RENT)
    ELSE 0

\* the vault keeps total_reserved plus the rent-exempt minimum
KeepsReserve(v) == v.lamports >= v.total_reserved + VAULT_RENT

\* a step that takes lamports out of the vault and gives the player nothing
WithdrawnNow ==
    /\ house_vault'.lamports < house_vault.lamports
    /\ user_lamports' = user_lamports

\* C20 as stated: a withdrawal above the allowance fails with
\* InsufficientVaultBalance, and every withdrawal that succeeds leaves the
\* vault with at least total_reserved plus the rent-exempt minimum and
\* total_reserved as it was.
C20_Original ==
    \A amount \in HouseWithdrawals :
        /\ amount > WithdrawAllowance =>
              withdraw_house_check(amount) = "InsufficientVaultBalance"
        /\ withdraw_house_check(amount) = Ok =>
              /\ KeepsReserve(withdraw_house_result(amount))
              /\ withdraw_house_result(amount).total_reserved =
                     house_vault.total_reserved

\* C20: a withdrawal above the allowance fails with InsufficientVaultBalance;
\* every withdrawal of a non-zero amount that succeeds leaves the vault with
\* at least total_reserved plus the rent-exempt minimum; no withdrawal changes
\* total_reserved.
C20_WithdrawKeepsReserve ==
    /\ [](\A amount \in HouseWithdrawals :
            /\ amount > WithdrawAllowance =>
                  withdraw_house_check(amount) = "InsufficientVaultBalance"
            /\ withdraw_house_check(amount) = Ok =>
                  /\ amount > 0 => KeepsReserve(withdraw_house_result(amount))
                  /\ withdraw_house_result(amount).total_reserved =
                         house_vault.total_reserved)
    /\ [][WithdrawnNow =>
            /\ house_vault.lamports - house_vault'.lamports <= WithdrawAllowance
            /\ KeepsReserve(house_vault')
            /\ house_vault'.total_reserved = house_vault.total_reserved]_vars

\* 150500000 withdrawn from the amply funded vault while one bet of 1000000
\* is open
C20_Witness ==
    /\ house_vault.total_reserved = 100000000
    /\ house_vault.lamports = VAULT_RENT + 250000000 + 1000000 - 150500000


\* The config account on its own: init_config with the parameters the admin
\* chooses, then any number of update_config calls.
ConfigInitInputs ==
    {[NoInitParams EXCEPT !.base_survival_ppm = b, !.decay_per_dive_ppm = d,
                          !.min_survival_ppm = m, !.treasure_multiplier_den = den,
                          !.max_dives = md, !.min_bet = lo, !.max_bet = hi,
                          !.treasure_multiplier_num = num,
                          !.max_payout_multiplier = mpm] :
        b \in {None, 1000000, 1000001}, d \in {None, 800000},
        m \in {None, 700001}, den \in {None, 0}, md \in {None, 0},
        lo \in {None, 200}, hi \in {None, 0, 100},
        num \in {None, 0}, mpm \in {None, 0}}

ConfigUpdateInputs ==
    {[NoUpdateParams EXCEPT !.base_survival_ppm = b, !.decay_per_dive_ppm = d,
                            !.min_survival_ppm = m, !.treasure_multiplier_den = den,
                            !.max_dives = md] :
        b \in {None, 40000, 1000001}, d \in {None, 8000, 800000},
        m \in {None, 30000, 700001}, den \in {None, 0, 7}, md \in {None, 0, 3}}

InitConfig ==
    /\ \E params \in ConfigInitInputs :
          /\ init_config(params).err = Ok
          /\ config = init_config(params).config
    /\ house_vault = [locked |-> FALSE, total_reserved |-> 0, lamports |-> VAULT_RENT]
    /\ sessions = [s \in Sessions |-> NoSession]
    /\ user_lamports \in UserFunding
    /\ clock_slot = 0
    /\ audit = [s \in Sessions |-> NoAudit]
    /\ opened = 0
    /\ calc = NoCalc
    /\ frame = NoFrame

NextConfig == \E params \in ConfigUpdateInputs : update_config(params)

SpecConfig == InitConfig /\ [][NextConfig]_vars

\* C21: the stored GameConfig always has decay_per_dive_ppm <=
\* base_survival_ppm <= 1,000,000, min_survival_ppm <= base_survival_ppm,
\* treasure_multiplier_den > 0, max_dives > 0 and (max_bet = 0 or
\* min_bet <= max_bet).
C21_StoredConfigValid ==
    /\ config.decay_per_dive_ppm <= config.base_survival_ppm
    /\ config.base_survival_ppm <= 1000000
    /\ config.min_survival_ppm <= config.base_survival_ppm
    /\ config.treasure_multiplier_den > 0
    /\ config.max_dives > 0
    /\ (config.max_bet = 0 \/ config.min_bet <= config.max_bet)


(***************************************************************************)
(* game_math.rs on its own: the functions applied dive after dive          *)
(***************************************************************************)
\* bets the curve is evaluated for: none, too small to grow, the smallest that
\* grows, ordinary ones, the largest whose cap does not saturate, and above
CalcBets == {0, 1, 7, 9, 10, 19, 100, 1000000,
             U64_MAX \div MAX_PAYOUT_MULT, U64_MAX \div MAX_PAYOUT_MULT + 1, U64_MAX}

\* dive numbers compared with the current one
CalcDives == {0, 1, 2, 49, 50, 64, 179, 180, 181, 200, 1000, U16_MAX}

\* the functions of game_math at dive_number 0: treasure_for_dive returns the
\* bet before its loop, max_dives_for_bet has not yet tested a dive number
calc_of(bet_amount) ==
    [bet_amount |-> bet_amount,
     dive_number |-> 0,
     prob |-> survival_probability_bps(0),
     result |-> bet_amount,
     returned |-> FALSE,
     treasure |-> bet_amount,
     max_payout |-> max_payout_for_bet(bet_amount),
     max_dives |-> None]

\* The same bet one dive deeper.  treasure_for_dive(bet, d + 1) runs the
\* loop of treasure_for_dive(bet, d) for one more iteration, unless that
\* call returned from inside the loop.  max_dives_for_bet tests the dive
\* numbers 1, 2, ... in turn and returns the first at which its loop
\* condition fails.
calc_next_dive(limit) ==
    LET dive == calc.dive_number + 1
        max == calc.max_payout
        it == IF calc.returned THEN [result |-> calc.result, returned |-> TRUE]
              ELSE treasure_iter(calc.result, max)
        treasure == treasure_return(it, max)
    IN  /\ calc.dive_number < limit
        /\ calc' = [calc EXCEPT
                        !.dive_number = dive,
                        !.prob = survival_probability_bps(dive),
                        !.result = it.result,
                        !.returned = it.returned,
                        !.treasure = treasure,
                        !.max_dives =
                            IF @ # None THEN @
                            ELSE IF treasure < max /\ dive < DIVE_SEARCH_LIMIT THEN None
                            ELSE dive]
        /\ UNCHANGED <<config, house_vault, sessions, user_lamports, clock_slot,
                       audit, opened, frame>>

InitCalc(bets) ==
    /\ \E bet \in bets : calc = calc_of(bet)
    /\ config = init_config(InitParams).config
    /\ house_vault = [locked |-> FALSE, total_reserved |-> 0, lamports |-> VAULT_RENT]
    /\ sessions = [s \in Sessions |-> NoSession]
    /\ user_lamports \in UserFunding
    /\ clock_slot = 0
    /\ audit = [s \in Sessions |-> NoAudit]
    /\ opened = 0
    /\ frame = NoFrame

\* the survival curve over every u16 dive number
InitSurvival == InitCalc({0})
NextSurvival == calc_next_dive(U16_MAX)
SpecSurvival == InitSurvival /\ [][NextSurvival]_vars

\* the treasure curve of each bet, dive after dive
InitTreasure == InitCalc(CalcBets)
NextTreasure == calc_next_dive(MaxCalcDive)
SpecTreasure == InitTreasure /\ [][NextTreasure]_vars

\* C22: at every dive number from 0 to u16::MAX the survival probability is
\* at least the floor of the curve (100,000) and at most 1,000,000.
C22_SurvivalInBounds ==
    /\ calc.dive_number \in 0..U16_MAX
    /\ calc.prob >= MIN_PROB_BPS
    /\ calc.prob <= 1000000

C22_Witness == calc.dive_number = U16_MAX /\ calc.prob = MIN_PROB_BPS

\* C23: the survival probability never rises with the dive number, falls by at
\* most the decay per dive, and stays at the floor once it is there.
C23_SurvivalMonotone ==
    /\ [](\A d \in CalcDives :
            /\ d <= calc.dive_number => survival_probability_bps(d) >= calc.prob
            /\ (d >= calc.dive_number /\ calc.prob = MIN_PROB_BPS) =>
                  survival_probability_bps(d) = MIN_PROB_BPS)
    /\ [][calc'.dive_number = calc.dive_number + 1 =>
            /\ calc'.prob <= calc.prob
            /\ calc.prob - calc'.prob <= DECAY_FACTOR
            /\ calc.prob = MIN_PROB_BPS => calc'.prob = MIN_PROB_BPS]_vars

C23_Witness == calc.dive_number = 181 /\ calc.prob = MIN_PROB_BPS


\* C24: for every bet and dive number the treasure is at most
\* max_payout_for_bet(bet), and at dive number 0 it is the bet.
C24_TreasureWithinCap ==
    /\ calc.treasure <= max_payout_for_bet(calc.bet_amount)
    /\ calc.dive_number = 0 => calc.treasure = calc.bet_amount
    /\ calc.dive_number <= DeepMaxDives =>
          calc.treasure = treasure_for_dive(calc.bet_amount, calc.dive_number)

C24_Witness ==
    /\ calc.bet_amount = 1000000
    /\ calc.dive_number > 0
    /\ calc.treasure = 100000000

\* C25: for a non-zero bet, one more dive gives strictly more treasure as long
\* as the treasure is below max_payout_for_bet(bet).
C25_TreasureStrictlyIncreases ==
    [][(/\ calc'.dive_number = calc.dive_number + 1
        /\ calc.bet_amount > 0
        /\ calc.treasure < calc.max_payout)
       => calc'.treasure > calc.treasure]_vars


\* C26: once the treasure equals max_payout_for_bet(bet) at some dive number,
\* it equals it at every later dive number.
C26_CapIsAbsorbing ==
    [][(/\ calc'.dive_number = calc.dive_number + 1
        /\ calc.treasure = max_payout_for_bet(calc.bet_amount))
       => calc'.treasure = max_payout_for_bet(calc.bet_amount)]_vars

C26_Witness ==
    /\ calc.bet_amount = 1000000
    /\ calc.dive_number >= DIVE_SEARCH_LIMIT
    /\ calc.treasure = 100000000

\* C27: max_dives_for_bet returns a dive number >= 1 at which the treasure
\* equals max_payout_for_bet(bet), and no smaller dive number >= 1 has it.
C27_MaxDivesReachesCap ==
    /\ calc.max_dives # None => calc.max_dives >= 1
    /\ calc.max_dives = calc.dive_number => calc.treasure = calc.max_payout
    /\ (calc.max_dives = None /\ calc.dive_number >= 1) =>
          calc.treasure < calc.max_payout

\* C28: max_payout_for_bet(bet) is the product of the bet and the multiplier,
\* or u64::MAX when the product is larger; the treasure is a u64 value, the
\* loop variable stays within one growth step of a u64 value, and where the
\* growth passes the cap the treasure is the cap.
C28_PayoutArithmeticSaturates ==
    /\ [](/\ calc.max_payout =
                IF calc.bet_amount <= U64_MAX \div MAX_PAYOUT_MULT
                THEN calc.bet_amount * MAX_PAYOUT_MULT ELSE U64_MAX
          /\ calc.treasure \in 0..U64_MAX
          /\ calc.result \in 0..grow(U64_MAX))
    /\ [][(/\ calc'.dive_number = calc.dive_number + 1
           /\ grow(calc.treasure) >= calc.max_payout)
          => calc'.treasure = calc.max_payout]_vars

C28_Witness ==
    /\ calc.bet_amount = U64_MAX \div MAX_PAYOUT_MULT + 1
    /\ calc.dive_number > 0
    /\ calc.max_payout = U64_MAX
    /\ calc.treasure = U64_MAX


\* C29: every roll lies in [0, 1,000,000), and a round of play_round is
\* survived exactly when the roll is below the survival probability of the
\* session's dive number; a roll equal to it loses the round.
C29_SurviveIffRollBelow ==
    /\ [](\A roll \in Rolls : roll \in 0..999999)
    /\ [][\A s \in Sessions, roll \in Rolls :
            play_round(s, roll) =>
                /\ (sessions'[s].dive_number = sessions[s].dive_number + 1)
                       <=> (roll < survival_probability_bps(sessions[s].dive_number))
                /\ (audit'[s].releases = audit[s].releases + 1)
                       <=> (roll >= survival_probability_bps(sessions[s].dive_number))]_vars

\* the session survived three rounds and lost the fourth
C29_Witness ==
    /\ sessions[1].dive_number = 4
    /\ audit[1].ended_by = "play_round"


(***************************************************************************)
(* instructions/start_session.rs, one statement at a time                  *)
(***************************************************************************)
\* the accounts as they are when the handler is entered
Snapshot ==
    [house_vault |-> house_vault, user_lamports |-> user_lamports,
     sessions |-> sessions]

\* the statement of the running handler that is executed next
At(pc) == frame.instr = "start_session" /\ frame.pc = pc

Goto(pc) == frame' = [frame EXCEPT !.pc = pc]

\* the handler returns Err(err)
Fail(err) == frame' = [frame EXCEPT !.pc = "failed", !.err = err]

\* the runtime loads the accounts, `init` creates the session account at the
\* user's cost, and the handler is entered
start_session_enter(s, bet_amount) ==
    /\ frame.instr = "none"
    /\ sessions[s].acct = "none"
    /\ user_lamports >= SESSION_RENT
    /\ opened < MaxOpens
    /\ user_lamports' = user_lamports - SESSION_RENT
    /\ sessions' = [sessions EXCEPT ![s] = [NoSession EXCEPT !.acct = "open"]]
    /\ frame' = [instr |-> "start_session", pc |-> "require_unlocked", s |-> s,
                 bet_amount |-> bet_amount, err |-> Ok,
                 saved |-> [house_vault |-> house_vault,
                            user_lamports |-> user_lamports',
                            sessions |-> sessions']]
    /\ UNCHANGED <<config, house_vault, clock_slot, audit, opened, calc>>

\* require!(!house_vault.locked, HouseLocked)
start_session_require_unlocked ==
    /\ At("require_unlocked")
    /\ IF house_vault.locked THEN Fail("HouseLocked") ELSE Goto("require_bet")
    /\ UNCHANGED <<config, house_vault, sessions, user_lamports, clock_slot,
                   audit, opened, calc>>

\* require!(bet_amount > 0, InvalidBetAmount)
start_session_require_bet ==
    /\ At("require_bet")
    /\ IF ~(frame.bet_amount > 0) THEN Fail("InvalidBetAmount") ELSE Goto("transfer")
    /\ UNCHANGED <<config, house_vault, sessions, user_lamports, clock_slot,
                   audit, opened, calc>>

\* system_program::transfer(cpi_ctx, bet_amount)?
start_session_transfer ==
    /\ At("transfer")
    /\ IF user_lamports < frame.bet_amount
       THEN /\ Fail("TransferFailed")
            /\ UNCHANGED <<house_vault, user_lamports>>
       ELSE /\ user_lamports' = user_lamports - frame.bet_amount
            /\ house_vault' = [house_vault EXCEPT !.lamports = @ + frame.bet_amount]
            /\ Goto("require_liquidity")
    /\ UNCHANGED <<config, sessions, clock_slot, audit, opened, calc>>

\* available = vault_balance.checked_sub(total_reserved)?;
\* require!(available >= max_payout, InsufficientVaultBalance)
start_session_require_liquidity ==
    LET available == checked_sub(house_vault.lamports, house_vault.total_reserved)
    IN  /\ At("require_liquidity")
        /\ IF available = -1 THEN Fail("Overflow")
           ELSE IF ~(available >= max_payout_for_bet(frame.bet_amount))
                THEN Fail("InsufficientVaultBalance")
           ELSE Goto("reserve")
        /\ UNCHANGED <<config, house_vault, sessions, user_lamports, clock_slot,
                       audit, opened, calc>>

\* total_reserved = total_reserved.checked_add(max_payout)?
start_session_reserve ==
    LET total == checked_add(house_vault.total_reserved,
                             max_payout_for_bet(frame.bet_amount))
    IN  /\ At("reserve")
        /\ IF total = -1
           THEN Fail("Overflow") /\ UNCHANGED house_vault
           ELSE /\ house_vault' = [house_vault EXCEPT !.total_reserved = total]
                /\ Goto("init_session")
        /\ UNCHANGED <<config, sessions, user_lamports, clock_slot, audit, opened, calc>>

\* the session fields are written and the handler returns Ok(())
start_session_init_session ==
    /\ At("init_session")
    /\ sessions' = [sessions EXCEPT ![frame.s] = new_session(frame.bet_amount)]
    /\ audit' = [audit EXCEPT ![frame.s] =
                    [NoAudit EXCEPT !.reserved = max_payout_for_bet(frame.bet_amount)]]
    /\ opened' = opened + 1
    /\ frame' = NoFrame
    /\ UNCHANGED <<config, house_vault, user_lamports, clock_slot, calc>>

\* the runtime discards every write of the failed instruction, the creation
\* of the session account included; the client is left with the error
start_session_rollback ==
    /\ At("failed")
    /\ house_vault' = frame.saved.house_vault
    /\ user_lamports' = frame.saved.user_lamports + SESSION_RENT
    /\ sessions' = [frame.saved.sessions EXCEPT ![frame.s] = NoSession]
    /\ frame' = [NoFrame EXCEPT !.err = frame.err]
    /\ UNCHANGED <<config, clock_slot, audit, opened, calc>>

NextSteps ==
    \/ \E s \in Sessions, bet \in Bets : start_session_enter(s, bet)
    \/ start_session_require_unlocked
    \/ start_session_require_bet
    \/ start_session_transfer
    \/ start_session_require_liquidity
    \/ start_session_reserve
    \/ start_session_init_session
    \/ start_session_rollback

SpecSteps == Init /\ [][NextSteps]_vars

\* C30: when a check of the running handler fails, the handler has written
\* no field and moved no value since it was entered.
C30_ChecksBeforeWrites ==
    (frame.instr # "none" /\ frame.pc = "failed") => Snapshot = frame.saved


(***************************************************************************)
(* The surviving branch of play_round                                      *)
(***************************************************************************)
\* the round played with roll by session s is survived
Survives(s, roll) == should_survive(roll, sessions[s].dive_number)

\* the step is play_round(s, roll) with a surviving roll; such a step changes
\* the session, which is tested first
SurvivingRound(s, roll) ==
    /\ sessions'[s] # sessions[s]
    /\ Survives(s, roll)
    /\ play_round(s, roll)

\* C31: a surviving play_round increments dive_number by exactly 1, sets
\* current_treasure to treasure_for_dive(bet_amount, new dive_number) and
\* last_active_slot to the current slot, and leaves the status Active and
\* bet_amount, max_payout, total_reserved and the vault and player balances
\* unchanged
C31_SurviveEffect ==
    [][\A s \in Sessions : \A roll \in Rolls :
          SurvivingRound(s, roll) =>
              /\ sessions'[s].dive_number = sessions[s].dive_number + 1
              /\ sessions'[s].current_treasure =
                    treasure_for_dive(sessions[s].bet_amount, sessions'[s].dive_number)
              /\ sessions'[s].last_active_slot = clock_slot
              /\ sessions[s].status = "Active"
              /\ sessions'[s].status = "Active"
              /\ sessions'[s].bet_amount = sessions[s].bet_amount
              /\ sessions'[s].max_payout = sessions[s].max_payout
              /\ sessions'[s].acct = sessions[s].acct
              /\ house_vault' = house_vault
              /\ user_lamports' = user_lamports]_vars

\* a session that survived a round at a slot later than the first
C31_Witness ==
    \E s \in Sessions :
        /\ IsActive(s)
        /\ sessions[s].dive_number = 2
        /\ sessions[s].current_treasure = treasure_for_dive(sessions[s].bet_amount, 2)
        /\ sessions[s].last_active_slot = clock_slot
        /\ clock_slot > 0


(***************************************************************************)
(* The losing branch of play_round                                         *)
(***************************************************************************)
\* C32: a losing play_round transitions the session to Lost and decreases
\* total_reserved by exactly max_payout, and transfers none of the bet or of
\* the treasure back to the player: the vault keeps its lamports and the
\* player receives at most the rent of the session account
C32_LossEffect ==
    [][\A s \in Sessions : \A roll \in Rolls :
          (~Survives(s, roll) /\ play_round(s, roll)) =>
              /\ sessions'[s].status = "Lost"
              /\ house_vault'.total_reserved =
                    house_vault.total_reserved - sessions[s].max_payout
              /\ house_vault'.lamports = house_vault.lamports
              /\ user_lamports' <= user_lamports + SESSION_RENT]_vars


(***************************************************************************)
(* Activity tracking                                                       *)
(***************************************************************************)
\* the step creates the account of session s
OpenedSession(s) == sessions[s].acct = "none" /\ sessions'[s].acct = "open"

\* C33: last_active_slot is set to the current slot by start_session and
\* refreshed by every surviving play_round, so that no session can be removed
\* by clean_expired_session within TIMEOUT_SLOTS slots of its opening or of
\* its last surviving round
C33_ActivityTracked ==
    [][\A s \in Sessions :
          /\ OpenedSession(s) =>
                /\ sessions'[s].last_active_slot = clock_slot
                /\ (clean_expired_session_check(s))' # Ok
          /\ (\E roll \in Rolls : SurvivingRound(s, roll)) =>
                /\ sessions'[s].last_active_slot = clock_slot
                /\ (clean_expired_session_check(s))' # Ok]_vars


(***************************************************************************)
(* update_config and the validation of configs                             *)
(***************************************************************************)
\* the parameter sets of update_config that write each field or leave it
UpdateFieldInputs ==
    {[NoUpdateParams EXCEPT !.base_survival_ppm = b, !.decay_per_dive_ppm = d,
                            !.min_survival_ppm = m, !.treasure_multiplier_num = num,
                            !.treasure_multiplier_den = den,
                            !.max_payout_multiplier = mpm, !.max_dives = md] :
        b \in {None, 900000}, d \in {None, 9000}, m \in {None, 30000, 950000},
        num \in {None, 0, 21}, den \in {None, 7}, mpm \in {None, 50},
        md \in {None, 3}}

\* the config initialised with the defaults, then updated by the admin
InitUpdate ==
    /\ init_config(NoInitParams).err = Ok
    /\ config = init_config(NoInitParams).config
    /\ house_vault = [locked |-> FALSE, total_reserved |-> 0, lamports |-> VAULT_RENT]
    /\ sessions = [s \in Sessions |-> NoSession]
    /\ user_lamports \in UserFunding
    /\ clock_slot = 0
    /\ audit = [s \in Sessions |-> NoAudit]
    /\ opened = 0
    /\ calc = NoCalc
    /\ frame = NoFrame

NextUpdate == \E params \in UpdateFieldInputs : update_config(params)

SpecUpdate == InitUpdate /\ [][NextUpdate]_vars

\* the field holds the parameter when it is present, its old value otherwise
WrittenIfPresent(old, new, param) == new = (IF param = None THEN old ELSE param)

\* C34: update_config changes exactly the fields present in its parameters
\* and leaves the absent ones unchanged, the resulting config as a whole
\* passes validate, and a parameter set whose resulting config fails
\* validate changes nothing of the stored config
C34_UpdateExactlyPresent ==
    /\ [][\A params \in UpdateFieldInputs :
             update_config(params) =>
                /\ WrittenIfPresent(config.base_survival_ppm,
                                    config'.base_survival_ppm, params.base_survival_ppm)
                /\ WrittenIfPresent(config.decay_per_dive_ppm,
                                    config'.decay_per_dive_ppm, params.decay_per_dive_ppm)
                /\ WrittenIfPresent(config.min_survival_ppm,
                                    config'.min_survival_ppm, params.min_survival_ppm)
                /\ WrittenIfPresent(config.treasure_multiplier_num,
                                    config'.treasure_multiplier_num, params.treasure_multiplier_num)
                /\ WrittenIfPresent(config.treasure_multiplier_den,
                                    config'.treasure_multiplier_den, params.treasure_multiplier_den)
                /\ WrittenIfPresent(config.max_payout_multiplier,
                                    config'.max_payout_multiplier, params.max_payout_multiplier)
                /\ WrittenIfPresent(config.max_dives, config'.max_dives, params.max_dives)
                /\ config'.min_bet = config.min_bet
                /\ config'.max_bet = config.max_bet
                /\ validate(config') = Ok]_vars
    /\ [](\A params \in UpdateFieldInputs :
             validate(apply_update(config, params)) # Ok => ~ENABLED update_config(params))

\* a config with fields written by update_config next to fields it left as
\* init_config stored them
C34_Witness ==
    /\ config.max_dives = 3
    /\ config.treasure_multiplier_num = 21
    /\ config.treasure_multiplier_den = 10
    /\ config.base_survival_ppm = 700000


\* C35: GameConfig::validate is the single source of truth: init_config
\* accepts a parameter set exactly when validate accepts the config that
\* results from it, so every config stored by init_config or update_config
\* passes validate
C35_InitAgreesWithValidate ==
    \A params \in ConfigInitInputs :
        init_config(params).config = config =>
            ((init_config(params).err = Ok) <=> (validate(config) = Ok))


(***************************************************************************)
(* lose_session                                                            *)
(***************************************************************************)
\* C36: lose_session on an Active session sets its status to Lost and
\* subtracts exactly max_payout from total_reserved with checked arithmetic:
\* when total_reserved < max_payout it fails with Overflow and the session
\* stays Active; it never moves lamports; on a session that is not Active it
\* fails with InvalidSessionStatus
C36_LoseSessionEffect ==
    /\ [][\A s \in Sessions :
             lose_session(s) =>
                /\ sessions[s].status = "Active"
                /\ sessions'[s] = [sessions[s] EXCEPT !.status = "Lost"]
                /\ house_vault.total_reserved >= sessions[s].max_payout
                /\ house_vault' =
                      [house_vault EXCEPT
                          !.total_reserved = @ - sessions[s].max_payout]
                /\ user_lamports' = user_lamports]_vars
    /\ [](\A s \in Sessions :
             Loaded(s) =>
                /\ sessions[s].status # "Active" =>
                      /\ lose_session_check(s) = "InvalidSessionStatus"
                      /\ ~ENABLED lose_session(s)
                /\ (/\ sessions[s].status = "Active"
                    /\ house_vault.total_reserved < sessions[s].max_payout) =>
                      /\ lose_session_check(s) = "Overflow"
                      /\ ~ENABLED lose_session(s))

\* a session that lose_session marked Lost, next to a loadable Active
\* session whose max_payout exceeds what is left of total_reserved
C36_Witness ==
    \E s, t \in Sessions :
        /\ Loaded(s)
        /\ sessions[s].status = "Lost"
        /\ audit[s].ended_by = "lose_session"
        /\ Loaded(t)
        /\ sessions[t].status = "Active"
        /\ house_vault.total_reserved < sessions[t].max_payout


(***************************************************************************)
(* Solvency of the vault                                                   *)
(***************************************************************************)
\* the amount the house tries to withdraw: all but 500,000 lamports of a
\* vault funded with 250,000,000 that received two bets of 1,000,000
SolvencyWithdrawals == {251500000}

\* any interleaving of the six instructions that move or reserve lamports
NextSolvency ==
    \/ \E s \in Sessions, bet \in Bets : start_session(s, bet)
    \/ \E s \in Sessions, roll \in Rolls : play_round(s, roll)
    \/ \E s \in Sessions : lose_session(s)
    \/ \E s \in Sessions : cash_out(s)
    \/ \E s \in Sessions, crank \in Cranks : clean_expired_session(s, crank)
    \/ \E amount \in SolvencyWithdrawals : withdraw_house(amount)
    \/ EndTransaction
    \/ AdvanceSlot

SpecSolvency == Init /\ [][NextSolvency]_vars

\* C37: in every reachable state the vault's balance is at least
\* total_reserved, so that cash_out of a profitable Active session on an
\* unlocked vault is never rejected with InsufficientVaultBalance
C37_Solvent ==
    /\ house_vault.lamports >= house_vault.total_reserved
    /\ \A s \in Sessions :
          (/\ IsActive(s)
           /\ ~house_vault.locked
           /\ sessions[s].current_treasure > sessions[s].bet_amount) =>
              cash_out_check(s) # "InsufficientVaultBalance"


(***************************************************************************)
(* The terms of a session                                                  *)
(***************************************************************************)
\* the step ends session s: it releases the reservation of s for the first time
EndedNow(s) == audit[s].releases = 0 /\ audit'[s].releases = 1

\* C38: bet_amount and max_payout of a session never change after
\* start_session, under any operation, so the amount released from
\* total_reserved when the session ends is exactly the amount reserved when
\* it was opened
C38_TermsFixed ==
    [][\A s \in Sessions :
          /\ (sessions[s].acct # "none" /\ sessions'[s].acct # "none") =>
                /\ sessions'[s].bet_amount = sessions[s].bet_amount
                /\ sessions'[s].max_payout = sessions[s].max_payout
                /\ sessions[s].max_payout = audit[s].reserved
          /\ EndedNow(s) =>
                house_vault.total_reserved - house_vault'.total_reserved
                    = audit[s].reserved]_vars


(***************************************************************************)
(* Bounded progress of a session                                           *)
(***************************************************************************)
\* the account of session s exists before and after the step
Persists(s) == sessions[s].acct # "none" /\ sessions'[s].acct # "none"

\* the step is a surviving play_round of session s
SurvivedNow(s) == \E roll \in Rolls : SurvivingRound(s, roll)

\* C39: under a fixed config dive_number starts at 1, never decreases and
\* increases only on a surviving play_round, by exactly 1, so a session
\* survives at most max_dives - 1 rounds; once dive_number has reached
\* max_dives play_round is always rejected and the only steps that still
\* change the session are those that end it
C39_BoundedProgress ==
    /\ [][\A s \in Sessions :
             /\ OpenedSession(s) => sessions'[s].dive_number = 1
             /\ Persists(s) =>
                   \/ sessions'[s].dive_number = sessions[s].dive_number
                   \/ /\ sessions'[s].dive_number = sessions[s].dive_number + 1
                      /\ SurvivedNow(s)
             /\ (Loaded(s) /\ sessions[s].dive_number >= config.max_dives
                    /\ sessions'[s] # sessions[s]) =>
                   \/ audit'[s].releases = audit[s].releases + 1
                   \/ sessions'[s] = NoSession]_vars
    /\ [](\A s \in Sessions :
             Loaded(s) =>
                /\ sessions[s].dive_number >= 1
                /\ sessions[s].dive_number - 1 <= config.max_dives - 1
                /\ sessions[s].dive_number >= config.max_dives =>
                      /\ play_round_check(s) # Ok
                      /\ ~ENABLED (\E roll \in Rolls : play_round(s, roll)))

\* a session that survived max_dives - 1 rounds and holds the treasure of
\* its last dive
C39_Witness ==
    \E s \in Sessions :
        /\ IsActive(s)
        /\ audit[s].releases = 0
        /\ sessions[s].dive_number = config.max_dives
        /\ sessions[s].current_treasure =
              treasure_for_dive(sessions[s].bet_amount, config.max_dives)
        /\ sessions[s].current_treasure > sessions[s].bet_amount


(***************************************************************************)
(* Sessions sharing the vault                                              *)
(***************************************************************************)
\* the step is an instruction called on session s
OperatesOn(s) ==
    \/ \E bet \in Bets : start_session(s, bet)
    \/ \E roll \in Rolls : play_round(s, roll)
    \/ cash_out(s)
    \/ lose_session(s)
    \/ \E crank \in Cranks : clean_expired_session(s, crank)

\* session s is loadable with status Active
ActiveSession(s) == Loaded(s) /\ sessions[s].status = "Active"

\* the step ends session s by a loss, a cash-out or a cleanup
EndsSession(s) ==
    \/ \E roll \in Rolls : ~Survives(s, roll) /\ play_round(s, roll)
    \/ cash_out(s)
    \/ lose_session(s)
    \/ \E crank \in Cranks : clean_expired_session(s, crank)

\* C40: an operation on session A never changes a field of another session
\* B; and two distinct Active sessions of the vault can be ended in either
\* order with the same result: ending A takes exactly A's max_payout from
\* total_reserved, whatever B is, and every way of ending B that would
\* succeed before A is ended still succeeds after it
C40_SessionsIsolated ==
    [][\A a, b \in Sessions :
          a # b =>
             /\ OperatesOn(a) => sessions'[b] = sessions[b]
             /\ (ActiveSession(a) /\ ActiveSession(b) /\ EndsSession(a)) =>
                   /\ house_vault'.total_reserved =
                         house_vault.total_reserved - sessions[a].max_payout
                   /\ lose_session_check(b) = Ok => (lose_session_check(b))' = Ok
                   /\ cash_out_check(b) = Ok => (cash_out_check(b))' = Ok
                   /\ clean_expired_session_check(b) = Ok =>
                         (clean_expired_session_check(b))' = Ok]_vars

=============================================================================
